---- MODULE Spec2Model ----
(***************************************************************************)
(* Model of gemini_example.py: the cms-hpt.txt parser, the naming of the   *)
(* download targets and the existence-check / download / gunzip pipeline   *)
(* of main() and download_file().                                          *)
(*                                                                         *)
(* Text is modelled as a sequence of one-character strings, so that the    *)
(* regular expression, the sort and the sanitisation are computed          *)
(* character by character, as Python computes them.                        *)
(***************************************************************************)
EXTENDS Integers, Sequences, FiniteSets, TLC

(***************************************************************************)
(* Bounds of the model.                                                    *)
(***************************************************************************)
\* number of invocations of the script that are explored
MaxRuns == 2
\* number of entries of HOSPITAL_SYSTEMS that are iterated
MaxDomains == 2
\* number of lines of a cms-hpt.txt text handed to the parser
MaxLines == 3

(***************************************************************************)
(* Characters and Python's str methods.                                    *)
(***************************************************************************)
\* the characters of code points 32..95, in code-point order
Printable ==
  <<" ","!","\"","#","$","%","&","'","(",")","*","+",",","-",".","/",
    "0","1","2","3","4","5","6","7","8","9",":",";","<","=",">","?","@",
    "A","B","C","D","E","F","G","H","I","J","K","L","M","N","O","P","Q","R",
    "S","T","U","V","W","X","Y","Z","[","\\","]","^","_">>

\* the characters of code points 97..122, in code-point order
Lowercase ==
  <<"a","b","c","d","e","f","g","h","i","j","k","l","m","n","o","p","q","r",
    "s","t","u","v","w","x","y","z">>

Control == {"\t", "\n", "\r"}

Chars ==
  {Printable[k] : k \in DOMAIN Printable} \cup {Lowercase[k] : k \in DOMAIN Lowercase}
    \cup Control

\* code point of a character: str comparison in Python is by code point
ord ==
  [c \in Chars |->
     IF c = "\t" THEN 9
     ELSE IF c = "\n" THEN 10
     ELSE IF c = "\r" THEN 13
     ELSE IF \E k \in DOMAIN Lowercase : Lowercase[k] = c
          THEN 96 + (CHOOSE k \in DOMAIN Lowercase : Lowercase[k] = c)
     ELSE 31 + (CHOOSE k \in DOMAIN Printable : Printable[k] = c)]

chr(n) == IF n >= 97 THEN Lowercase[n - 96] ELSE Printable[n - 31]

isspace(c) == c \in {" ", "\t", "\n", "\r"}

Alnum == {c \in Chars : ord[c] \in (48..57) \cup (65..90) \cup (97..122)}

isalnum(c) == c \in Alnum

\* c.lower() for every character
lower_char == [c \in Chars |-> IF ord[c] \in 65..90 THEN chr(ord[c] + 32) ELSE c]

lower(s) == [k \in DOMAIN s |-> lower_char[s[k]]]

\* s[a:b] with 1-based inclusive positions; empty when a > b
Slice(s, a, b) == IF a > b THEN <<>> ELSE SubSeq(s, a, b)

MatchAt(s, p, lit) ==
  /\ p >= 1
  /\ p + Len(lit) - 1 <= Len(s)
  /\ \A k \in 1..Len(lit) : s[p + k - 1] = lit[k]

startswith(s, lit) == MatchAt(s, 1, lit)

endswith(s, lit) == MatchAt(s, Len(s) - Len(lit) + 1, lit)

\* lit in s
contains(s, lit) == \E p \in 1..(Len(s) + 1) : MatchAt(s, p, lit)

\* first position >= p that holds no white space (Len(s) + 1 when none)
RECURSIVE SkipSpace(_, _)
SkipSpace(s, p) ==
  IF p <= Len(s) /\ isspace(s[p]) THEN SkipSpace(s, p + 1) ELSE p

\* first position >= p that holds white space (Len(s) + 1 when none)
RECURSIVE SkipNonSpace(_, _)
SkipNonSpace(s, p) ==
  IF p <= Len(s) /\ ~isspace(s[p]) THEN SkipNonSpace(s, p + 1) ELSE p

\* last position <= p that holds no white space (0 when none)
RECURSIVE SkipSpaceBack(_, _)
SkipSpaceBack(s, p) ==
  IF p >= 1 /\ isspace(s[p]) THEN SkipSpaceBack(s, p - 1) ELSE p

strip(s) == Slice(s, SkipSpace(s, 1), SkipSpaceBack(s, Len(s)))

\* s.rstrip(c) for a single character c
RECURSIVE rstrip_char(_, _)
rstrip_char(s, c) ==
  IF Len(s) > 0 /\ s[Len(s)] = c THEN rstrip_char(Slice(s, 1, Len(s) - 1), c)
  ELSE s

\* positions of the character sep in s
Positions(s, sep) == {p \in DOMAIN s : s[p] = sep}

Max(S) == CHOOSE x \in S : \A y \in S : y <= x

Min(S) == CHOOSE x \in S : \A y \in S : x <= y

\* s.split(sep)[-1]
split_last(s, sep) ==
  IF Positions(s, sep) = {} THEN s
  ELSE Slice(s, Max(Positions(s, sep)) + 1, Len(s))

\* s.split(sep)[0]
split_first(s, sep) ==
  IF Positions(s, sep) = {} THEN s
  ELSE Slice(s, 1, Min(Positions(s, sep)) - 1)

\* s.split(sep, 1)[1]; the caller guards against the IndexError
split_after_first(s, sep) == Slice(s, Min(Positions(s, sep)) + 1, Len(s))

\* s.replace(a, b) for single characters
replace(s, a, b) == [k \in DOMAIN s |-> IF s[k] = a THEN b ELSE s[k]]

\* str(n) for a natural number
RECURSIVE str(_)
str(n) ==
  IF n < 10 THEN <<chr(48 + n)>> ELSE str(n \div 10) \o <<chr(48 + (n % 10))>>

\* s.splitlines(): "\n", "\r" and "\r\n" end a line
RECURSIVE splitlines(_)
splitlines(s) ==
  IF s = <<>> THEN <<>>
  ELSE LET brk == {p \in DOMAIN s : s[p] \in {"\n", "\r"}}
       IN  IF brk = {} THEN <<s>>
           ELSE LET p == Min(brk)
                    q == IF s[p] = "\r" /\ p < Len(s) /\ s[p + 1] = "\n"
                         THEN p + 1 ELSE p
                IN  <<Slice(s, 1, p - 1)>> \o splitlines(Slice(s, q + 1, Len(s)))

\* a < b for str: the first differing code point decides, a prefix is smaller
RECURSIVE str_less_from(_, _, _)
str_less_from(a, b, k) ==
  IF k > Len(b) THEN FALSE
  ELSE IF k > Len(a) THEN TRUE
  ELSE IF a[k] # b[k] THEN ord[a[k]] < ord[b[k]]
  ELSE str_less_from(a, b, k + 1)

str_less(a, b) == str_less_from(a, b, 1)

\* "".join(parts)
RECURSIVE Concat(_)
Concat(parts) ==
  IF parts = <<>> THEN <<>> ELSE Head(parts) \o Concat(Tail(parts))

\* "\n".join(lines)
RECURSIVE JoinLines(_)
JoinLines(lines) ==
  IF lines = <<>> THEN <<>>
  ELSE IF Len(lines) = 1 THEN lines[1]
  ELSE lines[1] \o <<"\n">> \o JoinLines(Tail(lines))

Range(seq) == {seq[k] : k \in DOMAIN seq}

(***************************************************************************)
(* parse_cms_hpt_txt                                                       *)
(***************************************************************************)
\* One match of  ^\s*mrf-url\s*:\s*(https?://\S+)  (IGNORECASE, MULTILINE)
\* tried at position p of content, whose lower case is low: the positions
\* where the group starts and where the match ends, <<0, 0>> when there is
\* no match. Every quantifier is followed by a character outside its class,
\* so the greedy match is the only one.
RegexMatch(content, low, p) ==
  LET a == SkipSpace(content, p)
      b == SkipSpace(content, a + 7)
      d == SkipSpace(content, b + 1)
      e == IF MatchAt(low, d + 4, <<"s">>) THEN d + 5 ELSE d + 4
      f == e + 3
  IN  IF /\ (p = 1 \/ content[p - 1] = "\n")
         /\ MatchAt(low, a, <<"m","r","f","-","u","r","l">>)
         /\ MatchAt(low, b, <<":">>)
         /\ MatchAt(low, d, <<"h","t","t","p">>)
         /\ MatchAt(low, e, <<":","/","/">>)
         /\ f <= Len(content)
         /\ ~isspace(content[f])
      THEN <<d, SkipNonSpace(content, f)>>
      ELSE <<0, 0>>

\* the groups of the non-overlapping matches from position pos on, left to right
RECURSIVE FindFrom(_, _, _)
FindFrom(content, low, pos) ==
  LET starts == {p \in pos..Len(content) : RegexMatch(content, low, p)[1] # 0}
  IN  IF starts = {} THEN <<>>
      ELSE LET m == RegexMatch(content, low, Min(starts))
           IN  <<Slice(content, m[1], m[2] - 1)>> \o FindFrom(content, low, m[2])

\* regex.findall(content)
findall(content) == FindFrom(content, lower(content), 1)

\* the fallback scan of one line: the URLs it contributes to raw_urls
FallbackLine(line) ==
  LET stripped_line == strip(line)
      line_lower == lower(stripped_line)
      url_part == strip(split_after_first(stripped_line, ":"))
  IN  IF contains(line_lower, <<"m","r","f","-","u","r","l",":">>)
      THEN IF startswith(url_part, <<"h","t","t","p">>) THEN <<url_part>> ELSE <<>>
      ELSE IF /\ startswith(stripped_line, <<"h","t","t","p">>)
              /\ (contains(line_lower, <<".","j","s","o","n">>) \/ contains(line_lower, <<".","c","s","v">>))
              /\ \/ contains(line_lower, <<"s","t","a","n","d","a","r","d","c","h","a","r","g","e","s">>)
                 \/ contains(line_lower, <<"p","r","i","c","e","-","t","r","a","n","s","p","a","r","e","n","c","y">>)
                 \/ contains(line_lower, <<"m","r","f">>)
      THEN <<stripped_line>>
      ELSE <<>>

RECURSIVE FallbackScan(_)
FallbackScan(lines) ==
  IF lines = <<>> THEN <<>>
  ELSE FallbackLine(Head(lines)) \o FallbackScan(Tail(lines))

raw_urls(content) ==
  LET matches == findall(content)
  IN  IF matches = <<>> THEN FallbackScan(splitlines(content))
      ELSE [k \in DOMAIN matches |-> strip(matches[k])]

\* sorted(S) for a set of str
RECURSIVE sorted(_)
sorted(S) ==
  IF S = {} THEN <<>>
  ELSE LET m == CHOOSE x \in S : \A y \in S \ {x} : str_less(x, y)
       IN  <<m>> \o sorted(S \ {m})

\* the URLs of raw once each, in the order of their first occurrence
RECURSIVE first_occurrences(_)
first_occurrences(raw) ==
  IF raw = <<>> THEN <<>>
  ELSE LET front == first_occurrences(Slice(raw, 1, Len(raw) - 1))
       IN  IF raw[Len(raw)] \in Range(front) THEN front ELSE Append(front, raw[Len(raw)])

\* unique_urls with the sort left out: list(dict.fromkeys(raw_urls))
unique_urls_unsorted(raw) == first_occurrences(raw)

\* sorted(list(set(raw_urls)))
unique_urls(raw) == sorted(Range(raw))

file_format(url_str) ==
  LET url_lower == lower(url_str)
  IN  IF contains(url_lower, <<".","c","s","v",".","g","z">>) \/ endswith(url_lower, <<".","c","s","v">>) THEN "csv"
      ELSE IF contains(url_lower, <<".","j","s","o","n",".","g","z">>) \/ endswith(url_lower, <<".","j","s","o","n">>) THEN "json"
      ELSE "unknown"

parse_cms_hpt_txt(content) ==
  LET urls == unique_urls(raw_urls(content))
  IN  [k \in DOMAIN urls |-> [url |-> urls[k], format |-> file_format(urls[k])]]

IsCsv(entry) == entry.format = "csv"
IsJson(entry) == entry.format = "json"
IsUnknown(entry) == entry.format = "unknown"

\* ordered_mrf_links = csv_links + json_links + unknown_links
prioritize(mrf_entries) ==
  SelectSeq(mrf_entries, IsCsv) \o SelectSeq(mrf_entries, IsJson)
    \o SelectSeq(mrf_entries, IsUnknown)

(***************************************************************************)
(* Configuration                                                           *)
(***************************************************************************)
\* the dict keeps its insertion order
HOSPITAL_SYSTEMS ==
  << [name |-> <<"U","W"," ","M","e","d","i","c","i","n","e">>, base_url |-> <<"h","t","t","p","s",":","/","/","w","w","w",".","u","w","m","e","d","i","c","i","n","e",".","o","r","g">>],
     [name |-> <<"S","w","e","d","i","s","h"," ","(","P","r","o","v","i","d","e","n","c","e",")">>, base_url |-> <<"h","t","t","p","s",":","/","/","w","w","w",".","s","w","e","d","i","s","h",".","o","r","g">>],
     [name |-> <<"P","r","o","v","i","d","e","n","c","e"," ","W","a","s","h","i","n","g","t","o","n">>, base_url |-> <<"h","t","t","p","s",":","/","/","w","w","w",".","p","r","o","v","i","d","e","n","c","e",".","o","r","g">>],
     [name |-> <<"V","i","r","g","i","n","i","a"," ","M","a","s","o","n"," ","F","r","a","n","c","i","s","c","a","n"," ","H","e","a","l","t","h">>, base_url |-> <<"h","t","t","p","s",":","/","/","w","w","w",".","v","m","f","h",".","o","r","g">>],
     [name |-> <<"O","v","e","r","l","a","k","e"," ","H","o","s","p","i","t","a","l"," ","M","e","d","i","c","a","l"," ","C","e","n","t","e","r">>,
      base_url |-> <<"h","t","t","p","s",":","/","/","w","w","w",".","o","v","e","r","l","a","k","e","h","o","s","p","i","t","a","l",".","o","r","g">>],
     [name |-> <<"E","v","e","r","g","r","e","e","n","H","e","a","l","t","h">>, base_url |-> <<"h","t","t","p","s",":","/","/","w","w","w",".","e","v","e","r","g","r","e","e","n","h","e","a","l","t","h",".","c","o","m">>],
     [name |-> <<"M","u","l","t","i","C","a","r","e"," ","H","e","a","l","t","h"," ","S","y","s","t","e","m">>, base_url |-> <<"h","t","t","p","s",":","/","/","w","w","w",".","m","u","l","t","i","c","a","r","e",".","o","r","g">>],
     [name |-> <<"S","e","a","t","t","l","e"," ","C","h","i","l","d","r","e","n","'","s"," ","H","o","s","p","i","t","a","l">>,
      base_url |-> <<"h","t","t","p","s",":","/","/","w","w","w",".","s","e","a","t","t","l","e","c","h","i","l","d","r","e","n","s",".","o","r","g">>],
     [name |-> <<"K","a","i","s","e","r"," ","P","e","r","m","a","n","e","n","t","e"," ","W","a","s","h","i","n","g","t","o","n">>,
      base_url |-> <<"h","t","t","p","s",":","/","/","h","e","a","l","t","h","y",".","k","a","i","s","e","r","p","e","r","m","a","n","e","n","t","e",".","o","r","g">>] >>

OUTPUT_DIR == <<"h","o","s","p","i","t","a","l","_","m","r","f","_","s","e","a","t","t","l","e">>

\* the entries of HOSPITAL_SYSTEMS the model iterates, in list order
NumDomains == IF MaxDomains < Len(HOSPITAL_SYSTEMS) THEN MaxDomains ELSE Len(HOSPITAL_SYSTEMS)

Domains == 1..NumDomains

cms_hpt_txt_url(base_url) == rstrip_char(base_url, "/") \o <<"/","c","m","s","-","h","p","t",".","t","x","t">>

(***************************************************************************)
(* Naming of a download target (main, the body of the loop over the links) *)
(***************************************************************************)
safe_char(c) == IF isalnum(c) \/ c \in {".", "_", "-"} THEN c ELSE "_"

\* "".join(c if c.isalnum() or c in ('.', '_', '-') else '_' for c in name)
sanitize(name) == [k \in DOMAIN name |-> safe_char(name[k])]

\* mrf_format if mrf_format != 'unknown' else 'dat'
extension(mrf_format) ==
  IF mrf_format = "csv" THEN <<"c","s","v">>
  ELSE IF mrf_format = "json" THEN <<"j","s","o","n">>
  ELSE <<"d","a","t">>

\* f"{hospital_name.replace(' ','_')}_mrf_{i+1}.{extension}"; n is i + 1
synthetic_name(hospital_name, mrf_format, n) ==
  replace(hospital_name, " ", "_") \o <<"_","m","r","f","_">> \o str(n) \o <<".">> \o extension(mrf_format)

\* file_name_safe before the extension is ensured
url_file_name(hospital_name, mrf_url, mrf_format, n) ==
  LET file_name_from_url == split_first(split_last(mrf_url, "/"), "?")
      safe == sanitize(file_name_from_url)
  IN  IF safe = <<>> \/ safe = <<"_">>
      THEN synthetic_name(hospital_name, mrf_format, n)
      ELSE safe

\* file_name_safe as it is used in the output path
file_name_safe(hospital_name, mrf_url, mrf_format, n) ==
  LET name == url_file_name(hospital_name, mrf_url, mrf_format, n)
  IN  IF ~contains(name, <<".">>) THEN name \o <<".">> \o extension(mrf_format) ELSE name

\* the name of the file under OUTPUT_DIR
disk_file_name(hospital_name, mrf_url, mrf_format, n) ==
  replace(hospital_name, " ", "_") \o <<"_">>
    \o file_name_safe(hospital_name, mrf_url, mrf_format, n)

\* os.path.join(OUTPUT_DIR, name)
path_join(dir, name) == dir \o <<"/">> \o name

output_path(hospital_name, mrf_url, mrf_format, n) ==
  path_join(OUTPUT_DIR, disk_file_name(hospital_name, mrf_url, mrf_format, n))

\* output_file_path[:-3] if output_file_path.endswith(".gz") else output_file_path
decompressed_output_path(path) ==
  IF endswith(path, <<".","g","z">>) THEN Slice(path, 1, Len(path) - 3) ELSE path

\* the disk is a function from the paths that exist to the bytes of the file
exists(files, path) == path \in DOMAIN files

\* the existence check with the decompressed path left out
final_file_exists_output_only(files, path) == exists(files, path)

\* the existence check with the still-compressed original left out
final_file_exists_final_only(files, path) == exists(files, decompressed_output_path(path))

final_file_exists(files, path) ==
  \/ exists(files, decompressed_output_path(path))
  \/ (endswith(path, <<".","g","z">>) /\ exists(files, path))

write_file(files, path, bytes) ==
  [p \in DOMAIN files \cup {path} |-> IF p = path THEN bytes ELSE files[p]]

remove_file(files, path) == [p \in DOMAIN files \ {path} |-> files[p]]

(***************************************************************************)
(* Bytes, chunks and gzip                                                  *)
(***************************************************************************)
\* bytes per chunk of iter_content, in the scale of the model
ChunkLen == 2

Byte(n) == [t |-> "byte", v |-> n]

GzMagic == [t |-> "magic", v |-> 0]

\* gzip.compress: the header, the deflated bytes, the trailer with the size
gzip_compress(data) ==
  <<GzMagic>> \o [k \in DOMAIN data |-> [t |-> "deflate", v |-> data[k].v]]
    \o <<[t |-> "isize", v |-> Len(data)]>>

\* number of deflated bytes that follow the header
RECURSIVE DeflateRun(_, _)
DeflateRun(bytes, k) ==
  IF k <= Len(bytes) /\ bytes[k].t = "deflate" THEN 1 + DeflateRun(bytes, k + 1) ELSE 0

\* reading a gzip file to its end: the bytes that were decoded, and whether
\* the read raised (bad magic, stream that ends before its trailer, wrong size
\* or data after the trailer); an empty file reads as empty
gzip_read(bytes) ==
  IF bytes = <<>> THEN [ok |-> TRUE, data |-> <<>>]
  ELSE IF bytes[1] # GzMagic THEN [ok |-> FALSE, data |-> <<>>]
  ELSE LET n == DeflateRun(bytes, 2)
           data == [k \in 1..n |-> Byte(bytes[k + 1].v)]
       IN  [ok   |-> /\ Len(bytes) = n + 2
                     /\ bytes[n + 2] = [t |-> "isize", v |-> n],
            data |-> data]

\* the chunks response.iter_content yields for a body
RECURSIVE iter_content(_)
iter_content(body) ==
  IF body = <<>> THEN <<>>
  ELSE IF Len(body) <= ChunkLen THEN <<body>>
  ELSE <<Slice(body, 1, ChunkLen)>> \o iter_content(Slice(body, ChunkLen + 1, Len(body)))

(***************************************************************************)
(* download_file                                                           *)
(***************************************************************************)
\* the decompression with os.remove moved to a finally clause
decompress_removes_always(files, path) ==
  LET decompressed_path == Slice(path, 1, Len(path) - 3)
      r == gzip_read(files[path])
      written == write_file(files, decompressed_path, r.data)
  IN  IF r.ok
      THEN [files |-> remove_file(written, path),
            msgs  |-> <<"Successfully decompressed", "Removed original .gz file">>]
      ELSE [files |-> remove_file(written, path),
            msgs  |-> <<"Error decompressing", "The gzipped file remains">>]

\* the decompression with os.remove left out
decompress_keeps_gz(files, path) ==
  LET decompressed_path == Slice(path, 1, Len(path) - 3)
      r == gzip_read(files[path])
      written == write_file(files, decompressed_path, r.data)
  IN  IF r.ok
      THEN [files |-> written,
            msgs  |-> <<"Successfully decompressed", "Removed original .gz file">>]
      ELSE [files |-> written,
            msgs  |-> <<"Error decompressing", "The gzipped file remains">>]

\* the try block of the decompression, lines 66-75
decompress(files, path) ==
  LET decompressed_path == Slice(path, 1, Len(path) - 3)
      r == gzip_read(files[path])
      written == write_file(files, decompressed_path, r.data)
  IN  IF r.ok
      THEN [files |-> remove_file(written, path),
            msgs  |-> <<"Successfully decompressed", "Removed original .gz file">>]
      ELSE [files |-> written,
            msgs  |-> <<"Error decompressing", "The gzipped file remains">>]

\* A response is what the server and the network do to one GET:
\*   kind "timeout"      requests.get raises Timeout
\*   kind "http_error"   raise_for_status raises HTTPError
\*   kind "unexpected"   an exception that is no RequestException is raised
\*                       before the output file is opened
\*   kind "stream_error" iter_content raises a RequestException after
\*                       delivering the chunks of `body`
\*   kind "ok"           the whole body is delivered
\* The result is the disk afterwards, the return value and the lines printed.
download_file(files, path, response) ==
  LET chunks == iter_content(response.body)
  IN  IF response.kind = "timeout"
      THEN [files |-> files, ret |-> FALSE, msgs |-> <<"Timeout downloading">>]
      ELSE IF response.kind = "http_error"
      THEN [files |-> files, ret |-> FALSE, msgs |-> <<"Error downloading">>]
      ELSE IF response.kind = "unexpected"
      THEN [files |-> files, ret |-> FALSE, msgs |-> <<"An unexpected error occurred">>]
      ELSE IF response.kind = "stream_error"
      THEN [files |-> write_file(files, path, Concat(chunks)),
            ret   |-> FALSE,
            msgs  |-> <<"Error downloading">>]
      ELSE LET saved == write_file(files, path, Concat(chunks))
           IN  IF endswith(path, <<".","g","z">>)
               THEN [files |-> decompress(saved, path).files,
                     ret   |-> TRUE,
                     msgs  |-> <<"Successfully downloaded">> \o decompress(saved, path).msgs]
               ELSE [files |-> saved, ret |-> TRUE, msgs |-> <<"Successfully downloaded">>]

\* the outcome of a target, read off the lines printed for it
outcome_of(msgs) ==
  IF \E k \in DOMAIN msgs : msgs[k] = "Skipping" THEN "skipped-exists"
  ELSE IF \E k \in DOMAIN msgs : msgs[k] = "Error decompressing" THEN "failed-decompress"
  ELSE IF \E k \in DOMAIN msgs : msgs[k] = "Timeout downloading" THEN "failed-timeout"
  ELSE IF \E k \in DOMAIN msgs : msgs[k] = "Error downloading" THEN "failed-http"
  ELSE IF \E k \in DOMAIN msgs : msgs[k] = "An unexpected error occurred"
       THEN "failed-unexpected"
  ELSE "downloaded"

(***************************************************************************)
(* What the remote side can answer                                         *)
(***************************************************************************)
\* the decompressed content of the remote file
Content == <<Byte(1), Byte(2)>>

\* the bodies a server can hold for an MRF URL: for a .gz URL the content
\* gzipped, or a gzip stream that is truncated at the server; the plain
\* content otherwise
Bodies(url) ==
  IF endswith(split_first(url, "?"), <<".","g","z">>)
  THEN {gzip_compress(Content), Slice(gzip_compress(Content), 1, Len(Content) + 1)}
  ELSE {Content}

\* what a body is cut down to when the connection breaks after n chunks
delivered(body, n) == Concat(Slice(iter_content(body), 1, n))

Responses(url) ==
  {[kind |-> k, body |-> <<>>] : k \in {"timeout", "http_error", "unexpected"}}
    \cup {[kind |-> "ok", body |-> b] : b \in Bodies(url)}
    \cup {[kind |-> "stream_error", body |-> delivered(c[1], c[2])] :
            c \in {c \in Bodies(url) \X (0..Len(gzip_compress(Content))) :
                     c[2] < Len(iter_content(c[1]))}}

\* what the fetch of cms-hpt.txt can end in, other than status 200
MetadataFailures == {"404", "500", "timeout", "connection_error", "request_error"}

\* cms-hpt.txt texts the sites serve to the pipeline
SiteTexts ==
  { <<"m","r","f","-","u","r","l",":"," ","h","t","t","p",":","/","/","h","/","a",".","c","s","v",".","g","z","\n","m","r","f","-","u","r","l",":"," ","h","t","t","p",":","/","/","h","/","b","/","a",".","c","s","v","\n">>,
    <<"#"," ","n","o"," ","m","a","c","h","i","n","e","-","r","e","a","d","a","b","l","e"," ","f","i","l","e","s","\n">> }

\* lines of the cms-hpt.txt texts handed to the parser
ParseLines ==
  { <<"m","r","f","-","u","r","l",":"," ","h","t","t","p",":","/","/","h","/","b",".","c","s","v">>,
    <<"M","R","F","-","U","R","L"," ",":"," ","h","t","t","p","s",":","/","/","h","/","a",".","c","s","v",".","g","z">>,
    <<"m","r","f","-","u","r","l",":","h","t","t","p",":","/","/","h","/","a",".","j","s","o","n">>,
    <<"m","r","f","-","u","r","l",":"," ","h","t","t","p",":","/","/","h","/","Z","/">>,
    <<" "," ","m","r","f","-","u","r","l",":"," "," ","h","t","t","p",":","/","/","h","/","b",".","c","s","v">>,
    <<"h","t","t","p",":","/","/","h","/","m","r","f",".","c","s","v">>,
    <<"x"," ","m","r","f","-","u","r","l",":"," ","h","t","t","p",":","/","/","h","/","c"," ","d",".","j","s","o","n">>,
    <<"m","r","f","-","u","r","l",":">>,
    <<"m","r","f","-","u","r","l",":"," ","h","t","t","p",":","/","/","h","/","q","%","7","e","(","1",")",".","C","S","V","?","v","=","2">> }

ParseTexts ==
  {JoinLines(ls) : ls \in UNION {[1..n -> ParseLines] : n \in 0..MaxLines}}

\* what main() makes of each of these texts: the list it iterates, and the
\* output path of each link of the list for each domain
site_links == [text \in SiteTexts |-> prioritize(parse_cms_hpt_txt(text))]

\* the output path of each link of a list, for a hospital
link_paths(name, links) ==
  [k \in DOMAIN links |-> output_path(name, links[k].url, links[k].format, k)]

site_paths ==
  [d \in Domains |->
     [text \in SiteTexts |-> link_paths(HOSPITAL_SYSTEMS[d].name, site_links[text])]]

(***************************************************************************)
(* State                                                                   *)
(***************************************************************************)
VARIABLES
  runs,               \* invocations of the script started so far
  pc,                 \* where main() stands
  dom,                \* position in HOSPITAL_SYSTEMS of the current domain
  response_text,      \* response.text of the last cms-hpt.txt that was fetched
  ordered_mrf_links,  \* the list main() iterates for the current domain
  i,                  \* i + 1 of the enumerate loop
  output_file_path,   \* the path computed for the current link
  disk,               \* the files under OUTPUT_DIR: path -> bytes
  requests,           \* the download GETs issued in this run, in order
  meta,               \* this run: domain -> how the fetch of cms-hpt.txt ended
  processed,          \* this run: the domains whose iteration has begun, in order
  listed,             \* this run: <<domain, url>> of every link that was put in a list
  fetched,            \* this run: <<domain, url>> -> outcome of the target
  previous,           \* the same for the run before, kept for the domains
                      \* from the last one this run has been through onwards
  last                \* this run: the most recent call of download_file

vars ==
  <<runs, pc, dom, response_text, ordered_mrf_links, i, output_file_path, disk,
    requests, meta, processed, listed, fetched, previous, last>>

NoCall == [dom |-> 0, url |-> <<>>, path |-> <<>>, response |-> [kind |-> "none", body |-> <<>>],
           ret |-> FALSE, msgs |-> <<>>]

\* the file at a path, as a sequence of no or one byte string
file_at(files, path) == IF exists(files, path) THEN <<files[path]>> ELSE <<>>

\* the entries of the run before for the domains from d onwards
still_ahead(f, d) == [k \in {key \in DOMAIN f : key[1] >= d} |-> f[k]]

put(f, key, value) == [k \in DOMAIN f \cup {key} |-> IF k = key THEN value ELSE f[k]]

hospital_name == HOSPITAL_SYSTEMS[dom].name

mrf_entry == ordered_mrf_links[i]

target_path == output_path(hospital_name, mrf_entry.url, mrf_entry.format, i)

Init ==
  /\ runs = 0
  /\ pc = "idle"
  /\ dom = 1
  /\ response_text = <<>>
  /\ ordered_mrf_links = <<>>
  /\ i = 1
  /\ output_file_path = <<>>
  /\ disk = <<>>
  /\ requests = <<>>
  /\ meta = [d \in Domains |-> "pending"]
  /\ processed = <<>>
  /\ listed = {}
  /\ fetched = <<>>
  /\ previous = <<>>
  /\ last = NoCall

(***************************************************************************)
(* main                                                                    *)
(***************************************************************************)
\* the script is invoked: ensure_dir, then the loop over HOSPITAL_SYSTEMS
StartRun ==
  /\ pc = "idle"
  /\ runs < MaxRuns
  /\ runs' = runs + 1
  /\ pc' = "fetch_meta"
  /\ dom' = 1
  /\ requests' = <<>>
  /\ meta' = [d \in Domains |-> "pending"]
  /\ processed' = <<>>
  /\ listed' = {}
  /\ previous' = fetched
  /\ fetched' = <<>>
  /\ response_text' = <<>>
  /\ ordered_mrf_links' = <<>>
  /\ i' = 1
  /\ output_file_path' = <<>>
  /\ last' = NoCall
  /\ UNCHANGED disk

\* the for loop over HOSPITAL_SYSTEMS moves on, or ends
NextDomain ==
  IF dom < NumDomains
  THEN dom' = dom + 1 /\ pc' = "fetch_meta"
  ELSE dom' = dom /\ pc' = "summary"

\* the loop over ordered_mrf_links left after its first pass (break for continue)
NextLink_break == i' = i /\ NextDomain

\* the for loop over ordered_mrf_links moves on, or ends
NextLink ==
  IF i < Len(ordered_mrf_links)
  THEN i' = i + 1 /\ pc' = "check" /\ dom' = dom
  ELSE i' = i /\ NextDomain

\* requests.get of cms-hpt.txt answers 200: parse and order the links
MetadataFound(text) ==
  /\ pc = "fetch_meta"
  /\ response_text' = text
  /\ ordered_mrf_links' = site_links[text]
  /\ meta' = [meta EXCEPT ![dom] = "200"]
  /\ processed' = Append(processed, dom)
  /\ listed' = listed \cup {<<dom, ordered_mrf_links'[k].url>> : k \in DOMAIN ordered_mrf_links'}
  /\ i' = 1
  /\ IF ordered_mrf_links' # <<>> THEN pc' = "check" /\ dom' = dom ELSE NextDomain
  /\ previous' = still_ahead(previous, dom)
  /\ UNCHANGED <<runs, output_file_path, disk, requests, fetched, last>>

\* the status check left out: the body of the error answer is parsed as well
MetadataFailed_parses_body(how) ==
  /\ pc = "fetch_meta"
  /\ \E text \in SiteTexts :
       /\ response_text' = text
       /\ ordered_mrf_links' = site_links[text]
  /\ meta' = [meta EXCEPT ![dom] = how]
  /\ processed' = Append(processed, dom)
  /\ listed' = listed \cup {<<dom, ordered_mrf_links'[k].url>> : k \in DOMAIN ordered_mrf_links'}
  /\ i' = 1
  /\ IF ordered_mrf_links' # <<>> THEN pc' = "check" /\ dom' = dom ELSE NextDomain
  /\ previous' = still_ahead(previous, dom)
  /\ UNCHANGED <<runs, output_file_path, disk, requests, fetched, last>>

\* requests.get of cms-hpt.txt answers another status, or raises
MetadataFailed(how) ==
  /\ pc = "fetch_meta"
  /\ meta' = [meta EXCEPT ![dom] = how]
  /\ processed' = Append(processed, dom)
  /\ NextDomain
  /\ previous' = still_ahead(previous, dom)
  /\ UNCHANGED <<runs, response_text, ordered_mrf_links, i, output_file_path, disk,
                 requests, listed, fetched, last>>

\* lines 174-204: name the target, check whether it exists, skip it if so
CheckExisting ==
  /\ pc = "check"
  /\ output_file_path' = site_paths[dom][response_text][i]
  /\ IF final_file_exists(disk, output_file_path')
     THEN /\ fetched' = put(fetched, <<dom, mrf_entry.url>>,
                            [outcome |-> outcome_of(<<"Skipping">>),
                             path    |-> output_file_path',
                             file    |-> file_at(disk, decompressed_output_path(output_file_path'))])
          /\ NextLink
     ELSE /\ pc' = "download"
          /\ UNCHANGED <<dom, i, fetched>>
  /\ UNCHANGED <<runs, response_text, ordered_mrf_links, disk, requests, meta, processed,
                 listed, previous, last>>

\* lines 206-207: download_file(mrf_url, output_file_path)
Download(response) ==
  /\ pc = "download"
  /\ LET r == download_file(disk, output_file_path, response)
     IN  /\ disk' = r.files
         /\ last' = [dom |-> dom, url |-> mrf_entry.url, path |-> output_file_path,
                     response |-> response, ret |-> r.ret, msgs |-> r.msgs]
         /\ fetched' = put(fetched, <<dom, mrf_entry.url>>,
                           [outcome |-> outcome_of(r.msgs),
                            path    |-> output_file_path,
                            file    |-> file_at(r.files,
                                                decompressed_output_path(output_file_path))])
  /\ requests' = Append(requests, [dom |-> dom, url |-> mrf_entry.url])
  /\ NextLink
  /\ UNCHANGED <<runs, response_text, ordered_mrf_links, output_file_path, meta, processed,
                 listed, previous>>

\* the answer to the GET is whatever the server and the network make of it
DownloadTarget ==
  /\ pc = "download"
  /\ \E response \in Responses(mrf_entry.url) : Download(response)

\* lines 226-233: the closing lines are printed and main() returns
Finish ==
  /\ pc = "summary"
  /\ pc' = "idle"
  /\ previous' = <<>>
  /\ UNCHANGED <<runs, dom, response_text, ordered_mrf_links, i, output_file_path, disk,
                 requests, meta, processed, listed, fetched, last>>

Next ==
  \/ StartRun
  \/ \E text \in SiteTexts : MetadataFound(text)
  \/ \E how \in MetadataFailures : MetadataFailed(how)
  \/ CheckExisting
  \/ DownloadTarget
  \/ Finish

Spec == Init /\ [][Next]_vars

\* main() runs to its end once it is started; nothing makes the user start it
Run ==
  \/ \E text \in SiteTexts : MetadataFound(text)
  \/ \E how \in MetadataFailures : MetadataFailed(how)
  \/ CheckExisting
  \/ DownloadTarget
  \/ Finish

FairSpec == Spec /\ WF_vars(Run)

(***************************************************************************)
(* The parser and the naming on their own, over the texts of ParseTexts    *)
(***************************************************************************)
InitParse ==
  /\ runs = 0
  /\ pc = "parse"
  /\ dom \in Domains
  /\ response_text \in ParseTexts
  /\ ordered_mrf_links = <<>>
  /\ i = 1
  /\ output_file_path = <<>>
  /\ disk = <<>>
  /\ requests = <<>>
  /\ meta = [d \in Domains |-> "pending"]
  /\ processed = <<>>
  /\ listed = {}
  /\ fetched = <<>>
  /\ previous = <<>>
  /\ last = NoCall

\* lines 158-165
ParseText ==
  /\ pc = "parse"
  /\ ordered_mrf_links' = prioritize(parse_cms_hpt_txt(response_text))
  /\ pc' = "name"
  /\ UNCHANGED <<runs, dom, response_text, i, output_file_path, disk, requests, meta,
                 processed, listed, fetched, previous, last>>

\* lines 169-194 for the next link of the list
NameTarget ==
  /\ pc = "name"
  /\ i <= Len(ordered_mrf_links)
  /\ output_file_path' = target_path
  /\ i' = i + 1
  /\ UNCHANGED <<runs, pc, dom, response_text, ordered_mrf_links, disk, requests, meta,
                 processed, listed, fetched, previous, last>>

NextParse == ParseText \/ NameTarget

ParseSpec == InitParse /\ [][NextParse]_vars

(***************************************************************************)
(* Properties                                                              *)
(***************************************************************************)
FailedDownload == {"failed-http", "failed-timeout", "failed-unexpected"}

\* the targets this run has dealt with that the run before dealt with under
\* the same output path
Revisited ==
  {key \in DOMAIN fetched \cap DOMAIN previous : fetched[key].path = previous[key].path}

LastKey == <<last.dom, last.url>>

\* the last call of download_file got the whole body
LastServed == last.response.kind = "ok"

\* C1: a target that is absent and whose remote file is served whole (and
\* gunzips, for a .gz target) ends as downloaded; when the next run comes to
\* the same target it ends as skipped-exists, and the file at its final path
\* holds then what it held after the first run.
C1_Idempotent ==
  /\ (LastServed /\ (endswith(last.path, <<".","g","z">>) => gzip_read(last.response.body).ok))
       => fetched[LastKey].outcome = "downloaded"
  /\ \A key \in Revisited :
       previous[key].outcome = "downloaded"
         => /\ fetched[key].outcome = "skipped-exists"
            /\ previous[key].file # <<>>
            /\ fetched[key].file = previous[key].file
            /\ file_at(disk, decompressed_output_path(fetched[key].path)) = previous[key].file

C1_Witness ==
  \E key \in Revisited :
    /\ previous[key].outcome = "downloaded"
    /\ fetched[key].outcome = "skipped-exists"
    /\ endswith(fetched[key].path, <<".","g","z">>)

\* C2: a target whose download failed in one run (HTTP error, timeout,
\* connection error, unexpected error) is not skipped as existing by the next
\* run.
C2_FailedIsRetried ==
  \A key \in Revisited :
    previous[key].outcome \in FailedDownload => fetched[key].outcome # "skipped-exists"

\* C3: when the body of a .gz target arrives whole and does not gunzip, the
\* outcome is failed-decompress and the .gz file stays on disk with the bytes
\* that were downloaded; it is still there at any later point of the run.
C3_DecompressFailure ==
  /\ (LastServed /\ endswith(last.path, <<".","g","z">>) /\ ~gzip_read(last.response.body).ok)
       => /\ fetched[LastKey].outcome = "failed-decompress"
          /\ fetched[LastKey].outcome # "downloaded"
          /\ exists(disk, last.path)
          /\ disk[last.path] = last.response.body
  /\ \A key \in DOMAIN fetched :
       fetched[key].outcome = "failed-decompress" => exists(disk, fetched[key].path)

C3_Witness ==
  /\ LastServed
  /\ endswith(last.path, <<".","g","z">>)
  /\ ~gzip_read(last.response.body).ok
  /\ pc = "summary"

\* C4: when the body of a .gz target is the gzip of a content and arrives
\* whole, the path without .gz holds exactly that content afterwards and the
\* .gz path is gone.
C4_RoundTrip ==
  \A data \in {Content} :
    (LastServed /\ endswith(last.path, <<".","g","z">>) /\ last.response.body = gzip_compress(data))
      => /\ fetched[LastKey].outcome = "downloaded"
         /\ exists(disk, Slice(last.path, 1, Len(last.path) - 3))
         /\ disk[Slice(last.path, 1, Len(last.path) - 3)] = data
         /\ ~exists(disk, last.path)

C4_Witness ==
  /\ LastServed
  /\ endswith(last.path, <<".","g","z">>)
  /\ last.response.body = gzip_compress(Content)

\* the final path or the .gz path of the target is on disk
OnDisk(path) ==
  \/ path \in DOMAIN disk
  \/ (endswith(path, <<".","g","z">>) /\ Slice(path, 1, Len(path) - 3) \in DOMAIN disk)

\* C5: a GET for a target is issued only after its existence check found
\* neither path; a target one of whose paths exists is skipped, and the step
\* that skips it issues no request and leaves every file as it is.
C5_ExistenceGate ==
  /\ [](pc = "download" => ~OnDisk(output_file_path))
  /\ [][(pc = "check" /\ OnDisk(output_file_path'))
          => /\ pc' # "download"
             /\ fetched'[<<dom, mrf_entry.url>>].outcome = "skipped-exists"
             /\ requests' = requests
             /\ disk' = disk]_vars
  /\ [][Len(requests') > Len(requests) => (pc = "download" /\ ~OnDisk(output_file_path))]_vars

C5_Witness ==
  \E key \in DOMAIN fetched :
    /\ fetched[key].outcome = "skipped-exists"
    /\ endswith(fetched[key].path, <<".","g","z">>)
    /\ exists(disk, fetched[key].path)
    /\ ~exists(disk, decompressed_output_path(fetched[key].path))

\* C6: a run that was started reaches its closing lines; when it does, every
\* domain has been gone through once, in list order, and every link that was
\* put in a list has been skipped or attempted, whatever failed before it.
C6_Completes ==
  /\ (pc # "idle") ~> (pc = "idle")
  /\ [](pc = "summary"
          => /\ processed = [d \in Domains |-> d]
             /\ DOMAIN fetched = listed
             /\ \A d \in Domains : meta[d] # "pending")

C6_Witness ==
  /\ pc = "summary"
  /\ \E a, b \in DOMAIN fetched :
       /\ a[1] = 1 /\ b[1] = 1 /\ a # b
       /\ fetched[a].outcome \in FailedDownload
       /\ fetched[b].outcome = "downloaded"
  /\ meta[1] = "200"
  /\ meta[NumDomains] \in MetadataFailures

\* the links of a list, in order
Urls(links) == [k \in DOMAIN links |-> links[k].url]

Ascending(urls) == \A k \in 1..(Len(urls) - 1) : str_less(urls[k], urls[k + 1])

\* C7: the list handed to the downloader holds every extracted URL once, the
\* csv links first, then the json links, then the unknown ones, each group in
\* ascending order of the URLs.
C7_OrderedCandidates ==
  pc = "name" =>
    LET links == ordered_mrf_links
        csv == {k \in DOMAIN links : links[k].format = "csv"}
        json == {k \in DOMAIN links : links[k].format = "json"}
        unknown == {k \in DOMAIN links : links[k].format = "unknown"}
    IN  /\ Range(Urls(links)) = Range(raw_urls(response_text))
        /\ Cardinality(Range(Urls(links))) = Len(links)
        /\ csv \cup json \cup unknown = DOMAIN links
        /\ \A a \in csv : \A b \in json \cup unknown : a < b
        /\ \A a \in json : \A b \in unknown : a < b
        /\ \A a, b \in DOMAIN links :
             (a < b /\ links[a].format = links[b].format)
               => str_less(links[a].url, links[b].url)

C7_Witness ==
  /\ pc = "name"
  /\ Len(ordered_mrf_links) >= 3
  /\ Len(raw_urls(response_text)) = Len(ordered_mrf_links)
  /\ Urls(ordered_mrf_links) # raw_urls(response_text)
  /\ ~Ascending(Urls(ordered_mrf_links))
  /\ \E k \in DOMAIN ordered_mrf_links : ordered_mrf_links[k].format = "csv"
  /\ \E k \in DOMAIN ordered_mrf_links : ordered_mrf_links[k].format = "json"

\* the name of the file that the last named target is written to
WrittenName == Slice(output_file_path, Len(OUTPUT_DIR) + 2, Len(output_file_path))

Named == ordered_mrf_links[i - 1]

\* C8: the name of the file written under the output directory holds only
\* letters, digits, '.', '_' and '-'; and when the base name of the URL
\* sanitises to nothing, the name is {hospital}_mrf_{index}.{ext}.
C8_SanitizedName ==
  (pc = "name" /\ i > 1) =>
    /\ \A k \in DOMAIN WrittenName :
         isalnum(WrittenName[k]) \/ WrittenName[k] \in {".", "_", "-"}
    /\ split_first(split_last(Named.url, "/"), "?") = <<>>
         => file_name_safe(hospital_name, Named.url, Named.format, i - 1)
              = replace(hospital_name, " ", "_") \o <<"_","m","r","f","_">> \o str(i - 1) \o <<".">>
                  \o extension(Named.format)

\* C9: when the fetch of a domain's cms-hpt.txt ends in anything but status
\* 200, the step goes on to the next domain (or to the closing lines) without
\* a request or a change of a file, and the run holds no download request and
\* no outcome for that domain.
C9_MetadataFailure ==
  /\ [](\A d \in Domains :
          meta[d] \in MetadataFailures
            => /\ \A k \in DOMAIN requests : requests[k].dom # d
               /\ \A key \in DOMAIN fetched : key[1] # d
               /\ ~(dom = d /\ pc \in {"check", "download"}))
  /\ [][(pc = "fetch_meta" /\ meta'[dom] \in MetadataFailures)
          => /\ disk' = disk
             /\ requests' = requests
             /\ (dom' = dom + 1 /\ pc' = "fetch_meta") \/ (dom = NumDomains /\ pc' = "summary")]_vars

C9_Witness ==
  /\ meta[1] = "404"
  /\ NumDomains > 1
  /\ dom = 2
  /\ pc = "download"

\* C10: in a run that starts on an empty output directory no link is skipped
\* as existing.
C10_NoCrossTargetSkip ==
  runs = 1 => \A key \in DOMAIN fetched : fetched[key].outcome # "skipped-exists"

====
